---- MODULE Spec2Model ----
(***************************************************************************)
(* Model of hotchips_final.py: the incremental extraction loop of          *)
(* scrape_hot_chips, the per-candidate classification and RunLedger        *)
(* append, and the duplicate-ledger rotation helpers.                      *)
(*                                                                         *)
(* Text is modelled as a sequence of one-character strings so that         *)
(* str.strip() and str.lower() are computed, not assumed.  A workbook is   *)
(* its sequence of data rows (the header row is implicit: every reader    *)
(* in the program starts at min_row=2).  A row is the 5-tuple              *)
(* <<date, shop_name, phone_number, area_location, google_maps>>, so the   *)
(* program's r[1] and r[3] are r[2] and r[4] here.                         *)
(*                                                                         *)
(* The external source (the rendered page) is nondeterministic: every      *)
(* count, every card text and every harvested field is a free choice from  *)
(* a small set.  page.wait_for_timeout is a plain delay and is a no-op.    *)
(*                                                                         *)
(* Spec and FairSpec are one call of scrape_hot_chips after earlier runs;  *)
(* SkewSpec and PlaceholderSpec start it from further directory contents;  *)
(* RunsSpec runs the script repeatedly from empty directories; MainSpec is *)
(* the entry point up to that call; PhoneSpec is one call of               *)
(* validate_phone; FieldSpec is the phone and location resolution of one   *)
(* opened candidate.                                                       *)
(***************************************************************************)
EXTENDS Integers, Sequences, FiniteSets, TLC

\* ------------------------------------------------------------------ bounds
MaxCards == 2     \* largest listing count the source reports
MaxCount == 2     \* largest count_needed the user enters
MaxFaults == 1    \* exceptions raised while candidates are processed, per run
MaxRuns == 2      \* times the script is run one after the other

\* ------------------------------------------------------- program constants
empty_retries_max == 6
sc_max == 4

\* --------------------------------------------------------------- strings
NAText == <<"N", "/", "A">>

Lower(c) ==
    CASE c = "A" -> "a"
      [] c = "B" -> "b"
      [] c = "N" -> "n"
      [] OTHER -> c

LowerStr(s) == [i \in 1..Len(s) |-> Lower(s[i])]

RECURSIVE LStrip(_)
LStrip(s) == IF s = <<>> THEN s
             ELSE IF Head(s) = " " THEN LStrip(Tail(s)) ELSE s

RECURSIVE RStrip(_)
RStrip(s) == IF s = <<>> THEN s
             ELSE IF s[Len(s)] = " " THEN RStrip(SubSeq(s, 1, Len(s) - 1)) ELSE s

Strip(s) == RStrip(LStrip(s))

\* (name or "N/A").strip().lower()
NormName(name) == LowerStr(Strip(IF name = <<>> THEN NAText ELSE name))

\* (row[1] or "").strip().lower()
ShopKey(r) == LowerStr(Strip(r[2]))

\* (row[3] or "").strip()
LocKey(r) == Strip(r[4])

\* the (shop, location) pair of read_entries_from_dup / append_to_and_update_timestamp
DupKey(r) == <<ShopKey(r), LocKey(r)>>

\* dup_row = (name, phone, address_text, google_maps_loc)
DupRow(r) == <<r[2], r[3], r[4], r[5]>>

\* -------------------------------------------------- what the source shows
\* inner_text() of the name node of a card, before .strip()
CardTexts == { <<"A">>, <<"a", " ">>, <<"B">> }
Phones == { "9845012345" }
Addrs == { <<"x">>, <<"y">> }
Locs == { "https://maps/place" }
Today == "2024-01-01"

Counts == 0..MaxCards

SeqRange(s) == { s[i] : i \in 1..Len(s) }

\* ------------------------------------------------ characters and numbers
\* \d of the re module and str.isdigit() on the characters that occur
Digits == { "0", "1", "2", "3", "4", "5", "6", "7", "8", "9" }

\* [A-Za-z] on the characters that occur
Letters == { "A", "B", "H", "N", "R", "S", "a", "b", "c", "x", "y" }

\* str.isdigit(): at least one character and every character a digit
isdigit(s) == s # <<>> /\ \A i \in 1..Len(s) : s[i] \in Digits

DigitValue(c) ==
    CASE c = "0" -> 0 [] c = "1" -> 1 [] c = "2" -> 2 [] c = "3" -> 3 [] c = "4" -> 4
      [] c = "5" -> 5 [] c = "6" -> 6 [] c = "7" -> 7 [] c = "8" -> 8 [] c = "9" -> 9

\* int(s) for a string of digits
RECURSIVE int(_)
int(s) == IF s = <<>> THEN 0
          ELSE 10 * int(SubSeq(s, 1, Len(s) - 1)) + DigitValue(s[Len(s)])

\* ---------------------------------------------------- validate_phone (31-38)
\* the "NA" sentinel
NAPhone == << "N", "A" >>

\* "".join(re.findall(r'\d+', s)): the digits of s in order
DigitsOf(s) == SelectSeq(s, LAMBDA c : c \in Digits)

\* line 36 with the upper end of the range excluded
validate_phone_UpperExcluded(text) ==
    IF text = <<>> THEN NAPhone
    ELSE IF 10 <= Len(DigitsOf(text)) /\ Len(DigitsOf(text)) < 13
         THEN DigitsOf(text) ELSE NAPhone

validate_phone(text) ==
    IF text = <<>> THEN NAPhone
    ELSE IF 10 <= Len(DigitsOf(text)) /\ Len(DigitsOf(text)) <= 13
         THEN DigitsOf(text) ELSE NAPhone

\* longest raw phone text tried
MaxPhoneLen == 14

\* raw texts handed to validate_phone: digit strings, and digit strings with
\* separators
PhoneTexts ==
    UNION { [1..n -> { "1", "9" }] \cup [1..n -> { "9", "-" }] : n \in 0..MaxPhoneLen }

\* ------------------------------------------- area validation (180-191)
LettersOf(s) == SelectSeq(s, LAMBDA c : c \in Letters)

\* line 189 asking for one letter only
is_obviously_invalid_area_OneLetter(area) ==
    \/ area = <<>> \/ Strip(area) = <<>>
    \/ isdigit(Strip(area))
    \/ LettersOf(Strip(area)) = <<>>
    \/ Len(LettersOf(Strip(area))) < 1

is_obviously_invalid_area(area) ==
    \/ area = <<>> \/ Strip(area) = <<>>
    \/ isdigit(Strip(area))
    \/ LettersOf(Strip(area)) = <<>>
    \/ Len(LettersOf(Strip(area))) < 2

\* get_valid_area_from_user(max_attempts=2), line 706
max_attempts == 2

\* what the user types at the area prompt, before .strip()
AreaTexts ==
    { <<>>, << " " >>, << "1", "2" >>, << "a" >>, << "a", "1" >>, << "1", "-" >>,
      << " ", "a", " " >>, << "a", " ", "b" >>, << "H", "S", "R" >>,
      << "H", "S", "R", " " >>, << "x", "y" >> }

\* what the user types at the count prompt, before .strip()
CountTexts ==
    { << d >> : d \in Digits } \cup { <<>>, << "x" >>, << "-", "1" >>, << "1", "0" >>, << " ", "2" >> }

\* ------------------------------------------ field resolution (292-348, 510-551)
\* re.findall(r'\d+', s): the maximal digit runs of s, left to right
RECURSIVE DigitRunsFrom(_, _)
DigitRunsFrom(s, cur) ==
    IF s = <<>> THEN (IF cur = <<>> THEN <<>> ELSE << cur >>)
    ELSE IF Head(s) \in Digits THEN DigitRunsFrom(Tail(s), Append(cur, Head(s)))
    ELSE (IF cur = <<>> THEN <<>> ELSE << cur >>) \o DigitRunsFrom(Tail(s), <<>>)

DigitRuns(s) == DigitRunsFrom(s, <<>>)

\* lines 517-526 stopping after the telephone candidates
NormalizePhone_TelOnly(tels, share, pane) ==
    LET hits == SelectSeq(tels, LAMBDA c : validate_phone(c) # NAPhone)
    IN  IF hits # <<>> THEN validate_phone(hits[1]) ELSE NAPhone

\* lines 517-526: the phone of an entry from the harvested sources
NormalizePhone(tels, share, pane) ==
    LET hits == SelectSeq(tels, LAMBDA c : validate_phone(c) # NAPhone)
        p1 == IF hits # <<>> THEN validate_phone(hits[1]) ELSE NAPhone
        p2 == IF p1 = NAPhone /\ share # <<>> THEN validate_phone(share) ELSE p1
    IN  IF p2 = NAPhone THEN validate_phone(pane) ELSE p2

Ten == << "9", "8", "4", "5", "0", "1", "2", "3", "4", "5" >>

Five == << "1", "2", "3", "4", "5" >>

\* most telephone candidates one pane shows
MaxTel == 2

\* href or label of a telephone link or phone button
TelTexts ==
    { <<>>, << "t", "e", "l", ":" >> \o Ten, << "t", "e", "l", ":" >> \o Five,
      << "+", "9", "1", " " >> \o Five \o << " " >> \o Five }

\* innerText of the dialog and of the pane, before .strip()
PaneTexts ==
    { <<>>, << " " >>, Ten, Five \o << " " >> \o Five, Ten \o << " ", "x", " " >> \o Five,
      << "4", ".", "5", " " >> \o Five }

\* sub occurs in s at position i
OccursAt(s, sub, i) ==
    /\ i >= 1
    /\ i + Len(sub) - 1 <= Len(s)
    /\ SubSeq(s, i, i + Len(sub) - 1) = sub

\* sub in s
Contains(s, sub) == \E i \in 1..Len(s) : OccursAt(s, sub, i)

\* s[i..j] matches -?\d+\.\d+
IsDecimal(s, i, j) ==
    \E k \in i..j :
        /\ s[k] = "."
        /\ LET a == IF s[i] = "-" THEN i + 1 ELSE i
           IN  /\ a < k /\ k < j
               /\ \A n \in (a..(k - 1)) \cup ((k + 1)..j) : s[n] \in Digits

\* re.search(r'!3d-?\d', url)
HasDataMarker(url) ==
    \E i \in 1..Len(url) :
        /\ OccursAt(url, << "!", "3", "d" >>, i)
        /\ \/ (i + 3 <= Len(url) /\ url[i + 3] \in Digits)
           \/ (i + 4 <= Len(url) /\ url[i + 3] = "-" /\ url[i + 4] \in Digits)

\* extract_coords_from_url(url) is not None (40-50)
HasCoords(url) ==
    \/ \E i \in 1..Len(url) :
        /\ url[i] = "@"
        /\ \E j \in i..Len(url) :
            /\ url[j] = "," /\ IsDecimal(url, i + 1, j - 1)
            /\ \E k \in j..Len(url) : IsDecimal(url, j + 1, k)
    \/ \E i \in 1..Len(url) :
        /\ OccursAt(url, << "!", "3", "d" >>, i)
        /\ \E j \in i..Len(url) :
            /\ OccursAt(url, << "!", "4", "d" >>, j) /\ IsDecimal(url, i + 3, j - 1)
            /\ \E k \in j..Len(url) : IsDecimal(url, j + 3, k)

\* line 531 testing "/place/" only
LooksLikePlace_PlaceOnly(url) ==
    url # <<>> /\ Contains(url, << "/", "p", "l", "a", "c", "e", "/" >>)

\* the test of line 531
LooksLikePlace(url) ==
    /\ url # <<>>
    /\ \/ Contains(url, << "/", "p", "l", "a", "c", "e", "/" >>)
       \/ Contains(url, << "@" >>)
       \/ HasDataMarker(url)

Http == << "h", "t", "t", "p" >>

\* https?://\S+ matches at position i of s; the result is where \S+ starts
SchemeEnd(s, i) ==
    IF OccursAt(s, Http \o << ":", "/", "/" >>, i) THEN i + 7
    ELSE IF OccursAt(s, Http \o << "s", ":", "/", "/" >>, i) THEN i + 8
    ELSE 0

UrlAt(s, i) == SchemeEnd(s, i) # 0 /\ SchemeEnd(s, i) <= Len(s) /\ s[SchemeEnd(s, i)] # " "

RECURSIVE RStripChars(_, _)
RStripChars(s, chars) ==
    IF s = <<>> THEN s
    ELSE IF s[Len(s)] \in chars THEN RStripChars(SubSeq(s, 1, Len(s) - 1), chars) ELSE s

\* m.group(1).strip().rstrip(')"\'') of re.search(r'(https?://\S+)', s); <<>> for no match
FirstLink(s) ==
    IF \E i \in 1..Len(s) : UrlAt(s, i)
    THEN LET i == CHOOSE n \in 1..Len(s) : UrlAt(s, n) /\ \A m \in 1..(n - 1) : ~UrlAt(s, m)
             j == CHOOSE n \in i..Len(s) :
                    /\ \A m \in i..n : s[m] # " "
                    /\ (n = Len(s) \/ s[n + 1] = " ")
         IN  RStripChars(Strip(SubSeq(s, i, j)), { ")", "'", "\"" })
    ELSE <<>>

\* extract_share_link_from_dialog (292-348): clicked is whether a share button
\* was visible and clicked, dlg_text the text read after the click, val the
\* value of the dialog's input (<<>> when there is none or reading it raises)
extract_share_link_from_dialog(clicked, dlg_text, val) ==
    IF ~clicked THEN NAPhone
    ELSE IF FirstLink(dlg_text) # <<>> THEN FirstLink(dlg_text)
    ELSE IF val # <<>> /\ OccursAt(val, Http, 1) THEN val
    ELSE NAPhone

\* lines 529-547: share_link is what extract_share_link_from_dialog returned,
\* when it is called
exact_place_url(current_url, share_link) ==
    IF LooksLikePlace(current_url) THEN current_url
    ELSE IF HasCoords(current_url) THEN current_url
    ELSE IF share_link # <<>> /\ share_link # NAPhone THEN share_link
    ELSE IF current_url # <<>> THEN current_url ELSE NAPhone

\* line 541 is reached
ShareTried(current_url) == ~LooksLikePlace(current_url) /\ ~HasCoords(current_url)

\* line 551
google_maps_loc_of(exact, current_url) ==
    IF exact # <<>> THEN exact ELSE IF current_url # <<>> THEN current_url ELSE NAPhone

Base == << "h", "t", "t", "p", ":", "/", "/", "m", "/" >>

ShareUrl == << "h", "t", "t", "p", "s", ":", "/", "/", "s", "/", "x" >>

\* window.location.href, before .strip()
PageUrls ==
    { <<>>, << " " >>, Base \o << "s" >>, Base \o << "s", " " >>,
      Base \o << "p", "l", "a", "c", "e", "/", "x" >>,
      Base \o << "@", "1", ".", "5", ",", "2", ".", "5" >>,
      Base \o << "s", "@" >>,
      Base \o << "!", "3", "d", "-", "1", ".", "5", "!", "4", "d", "2", ".", "5" >>,
      Base \o << "!", "3", "d", "x" >> }

\* text of the share dialog after the click
DialogTexts ==
    { <<>>, << "S", "h", "a", "r", "e" >>,
      << "S", " " >> \o ShareUrl \o << " ", "c" >>,
      << "(" >> \o ShareUrl \o << ")" >>,
      Http \o << ":", "/", "/", " " >> }

\* value of the dialog's input
InputValues == { <<>>, ShareUrl, << "x" >> }

\* ------------------------------------------------------------------ state
VARIABLES
    outputDir,        \* OUTPUT_DIR: set of [ts, rows], the main_<ts>.xlsx files
    dupBase,          \* DUP_DIR/duplicated.xlsx: [exists, rows]
    dupRot,           \* DUP_DIR/duplicated_<ts>.xlsx: set of [ts, rows]
    clock,            \* now_ts(), in seconds
    pc,               \* position inside scrape_hot_chips
    catalogue,        \* card texts the source can list during this run
    count_needed,
    historical_names,
    hist0,            \* value load_all_previous_entries() returned
    out0,             \* the main files of earlier runs when the run started
    rot0,             \* the rotated duplicate files when the run started
    base0,            \* the placeholder when the run started
    MAIN_FILE,        \* ts of this run's main file
    dup_entries,
    dup_seen,
    saved,
    seen_this_run,
    empty_retries,
    total_cards,
    idx,
    sc_tries,
    old_count,
    faults,
    printed,          \* what the last step wrote to stdout (message kinds)
    skipped,          \* main files load_all_previous_entries warned about
    swallowed,        \* calls of the last step whose exception was passed over
    \* the entry point (705-716) and get_valid_area_from_user (234-255)
    mpc,              \* position inside __main__
    area_input,
    attempt,
    probed,           \* arguments check_area_on_maps was called with, in order
    count_input,
    count,
    \* one call of validate_phone (31-38)
    raw_text,
    phone,
    \* the fields of one opened candidate (510-551)
    fpc,              \* position inside the field resolution
    tel_candidates,
    share_dialog_text,
    pane_text,
    current_url,
    entry_phone,      \* phone of lines 517-526
    share_called,     \* extract_share_link_from_dialog was called (line 541)
    share_clicked,    \* a share button was clicked (line 306)
    share_link,       \* what that call returned, <<>> when it was not made
    google_maps_loc

\* state of one call of scrape_hot_chips
scrapeVars == << outputDir, dupBase, dupRot, clock, pc, catalogue, count_needed,
                 historical_names, hist0, out0, rot0, base0, MAIN_FILE, dup_entries,
                 dup_seen,
                 saved, seen_this_run, empty_retries, total_cards, idx, sc_tries,
                 old_count, faults, printed, skipped, swallowed >>

mainVars == << mpc, area_input, attempt, probed, count_input, count >>

phoneVars == << raw_text, phone >>

fieldVars == << fpc, tel_candidates, share_dialog_text, pane_text, current_url,
                entry_phone, share_called, share_clicked, share_link, google_maps_loc >>

vars == << scrapeVars, mainVars, phoneVars, fieldVars >>

dirVars == << outputDir, dupBase, dupRot, clock >>
startVars == << catalogue, count_needed, hist0, out0, rot0, base0, MAIN_FILE, skipped,
                mainVars, phoneVars, fieldVars >>
runVars == << startVars, swallowed >>

\* ------------------------------------------------------------ file helpers
File(ts, rows) == [ts |-> ts, rows |-> rows]

\* wb.save(path): create or overwrite the file named with ts
WriteFile(dir, ts, rows) == { f \in dir : f.ts # ts } \cup { File(ts, rows) }

\* os.remove(path)
RemoveFile(dir, ts) == { f \in dir : f.ts # ts }

FileRows(dir, ts) == (CHOOSE f \in dir : f.ts = ts).rows

\* rows of this run's main_<ts>.xlsx
ledger == IF \E f \in outputDir : f.ts = MAIN_FILE
          THEN FileRows(outputDir, MAIN_FILE) ELSE <<>>


\* ------------------------------------------------- HistoricalIndex (160-175)
\* keys of one main file: lowercase, trimmed shop names, empty ones skipped
MainFileKeys(rows) == { ShopKey(rows[i]) : i \in { j \in 1..Len(rows) : ShopKey(rows[j]) # <<>> } }

\* one unreadable file loses the whole history
load_all_previous_entries_AllOrNothing(dir, unreadable) ==
    IF unreadable # {} THEN {} ELSE UNION { MainFileKeys(f.rows) : f \in dir }

\* unreadable: the files whose load_workbook raises; they are skipped
load_all_previous_entries(dir, unreadable) ==
    UNION { MainFileKeys(f.rows) : f \in dir \ unreadable }

\* ------------------------------------------------ duplicate helpers (55-158)
\* Python's None where a timestamp is expected (timestamps are >= 0)
None == 0 - 1

\* newest rotated file by modification time; a file's mtime is its write time
find_latest_timestamped_dup(rot) ==
    IF rot = {} THEN None
    ELSE (CHOOSE f \in rot : \A g \in rot : g.ts <= f.ts).ts

\* every cell of the row is None or blank after str(cell).strip()
RowBlank(r) ==
    r[1] = "" /\ Strip(r[2]) = <<>> /\ r[3] = "" /\ Strip(r[4]) = <<>> /\ r[5] = ""

\* lines 74-77 left out: only a file without data rows counts as empty
is_workbook_empty_HeaderOnly(rows, loadOk) ==
    IF ~loadOk THEN FALSE
    ELSE rows = <<>>

\* an exception while loading answers False (line 78)
is_workbook_empty(rows, loadOk) ==
    IF ~loadOk THEN FALSE
    ELSE \A i \in 1..Len(rows) : RowBlank(rows[i])

read_entries_from_dup(rows, loadOk) ==
    IF loadOk THEN { DupKey(rows[i]) : i \in 1..Len(rows) } ELSE {}

save_timestamped_dup(rot, now, rows) == WriteFile(rot, now, rows)

\* filtered_rows of append_to_and_update_timestamp (124-129)
filtered_rows(new_rows, existing_set) ==
    SelectSeq(new_rows, LAMBDA r : DupKey(r) \notin existing_set)

\* append_to_and_update_timestamp saving only the filtered rows (a replacement
\* that drops the rows of the existing file)
append_to_and_update_timestamp_DropsExisting(rot, existing, new_rows, now, readOk, openOk, rmOk) ==
    LET existing_rows == FileRows(rot, existing)
        existing_set == read_entries_from_dup(existing_rows, readOk)
        written == WriteFile(rot, now, filtered_rows(new_rows, existing_set))
    IN  IF ~openOk THEN save_timestamped_dup(rot, now, new_rows)
        ELSE IF rmOk THEN RemoveFile(written, existing) ELSE written

\* the rotated files after append_to_and_update_timestamp(existing_path, new_rows)
append_to_and_update_timestamp(rot, existing, new_rows, now, readOk, openOk, rmOk) ==
    LET existing_rows == FileRows(rot, existing)
        existing_set == read_entries_from_dup(existing_rows, readOk)
        merged == existing_rows \o filtered_rows(new_rows, existing_set)
        written == WriteFile(rot, now, merged)
    IN  IF ~openOk THEN save_timestamped_dup(rot, now, new_rows)
        ELSE IF rmOk THEN RemoveFile(written, existing) ELSE written

\* duplicated.xlsx missing, and duplicated.xlsx with the header row only
Absent == [exists |-> FALSE, rows |-> <<>>]

Placeholder == [exists |-> TRUE, rows |-> <<>>]

\* lines 682-686 and 693-697 left out: the placeholder is never dropped
PlaceholderAfterDuplicates_Keeps(base, loadOk, rmOk) == base

\* lines 682-686 and 693-697: drop the placeholder when it is empty
PlaceholderAfterDuplicates(base, loadOk, rmOk) ==
    IF base.exists /\ is_workbook_empty(base.rows, loadOk) /\ rmOk
    THEN Absent
    ELSE base

\* lines 669-678 testing only the placeholder, not the rotated file
PlaceholderAfterNoDuplicates_IgnoresRotated(base, latest) ==
    IF ~base.exists THEN Placeholder ELSE base

\* lines 669-678: this run recorded no duplicate
PlaceholderAfterNoDuplicates(base, latest) ==
    IF ~base.exists /\ latest = None
    THEN Placeholder
    ELSE base

\* ---------------------------------------------------- loop tests (392-428)
WhileCond(s, c) == s < c

\* line 427 off by one
ForBreak_OffByOne(s, c) == s > c

ForBreak(s, c) == s >= c

LoopHead(s, c) == IF WhileCond(s, c) THEN "listing" ELSE "finish"

\* line 399 left out: an empty count is not counted
LadderRetries_NotCounted(er, c1) == IF c1 = 0 THEN er ELSE 0

\* empty_retries after the first count of an iteration (398-399, 424)
LadderRetries(er, c1) == IF c1 = 0 THEN er + 1 ELSE 0

LadderGivesUp(er) == ~(er <= empty_retries_max)

\* total_cards after the scroll and reload re-counts (400-419)
LadderTotal(c1, c2, c3) == IF c1 # 0 THEN c1 ELSE IF c2 = 0 THEN c3 ELSE c2

\* a count of the listing; an exception in count() is the value 0
CountsOf(cat) == IF cat = {} THEN {0} ELSE Counts

\* ---------------------------------------------- per-candidate steps (426-625)
\* the name read from a card: inner_text().strip()
CardNames(cat) == { Strip(t) : t \in cat }

\* line 443 with the in-run test left out
SeenInRun_NeverSeen(norm_name, seen) == FALSE

\* line 443: the in-run classifier
SeenInRun(norm_name, seen) == norm_name \in seen

\* lines 576-580 with the historical test inverted
RecordDuplicate_Inverted(entries, dseen, hist, row) ==
    IF NormName(row[2]) \notin hist /\ DupRow(row) \notin dseen
    THEN Append(entries, row) ELSE entries

\* lines 576-580: dup_entries after the historical test
RecordDuplicate(entries, dseen, hist, row) ==
    IF NormName(row[2]) \in hist /\ DupRow(row) \notin dseen
    THEN Append(entries, row) ELSE entries

RecordDuplicateSeen(dseen, hist, row) ==
    IF NormName(row[2]) \in hist /\ DupRow(row) \notin dseen
    THEN dseen \cup { DupRow(row) } ELSE dseen

\* set.add replaced by an assignment of the one key
AddKey_Overwrites(keys, norm_name) == { norm_name }

\* lines 609-610: set.add(norm_name)
AddKey(keys, norm_name) == keys \cup { norm_name }

\* lines 584-592 with the append of line 592 left out
MainRowsAfterAppend_NoAppend(rows, row, loadOk) ==
    IF loadOk THEN rows ELSE <<>>

\* lines 584-592: the rows of the workbook that is saved over MAIN_FILE
MainRowsAfterAppend(rows, row, loadOk) ==
    IF loadOk THEN Append(rows, row) ELSE << row >>

\* the exception comes after the row reached the file
MainRowsAfterFailedWrite_RowWritten(rows, row) == Append(rows, row)

\* lines 592-606 raise (ws.append, wb.save): MAIN_FILE keeps the rows it had
MainRowsAfterFailedWrite(rows, row) == rows


\* ------------------------------------------------------------------ Init
\* One process is one call of scrape_hot_chips (line 715).  The directories
\* exist when the script starts (os.makedirs, exist_ok) and hold what earlier
\* runs left behind:
\*   nothing (first run ever);
\*   two main files and the placeholder (two runs that met no duplicate);
\*   one main file and one rotated file (a later run met shop A again);
\*   the same with a placeholder whose removal had failed;
\*   one main file and two rotated files (an earlier merge could not open
\*   the older one and wrote a fresh file next to it).
PriorRow == << Today, <<"A">>, "9845012345", <<"x">>, "https://maps/place" >>

PriorRowY == << Today, <<"A">>, "9845012345", <<"y">>, "https://maps/place" >>

PriorRowB == << Today, <<"B">>, "9845012345", <<"x">>, "https://maps/place" >>

PriorDirs ==
    { [out |-> {}, rot |-> {}, base |-> Absent],
      [out |-> { File(0, << PriorRow >>), File(1, << PriorRowB >>) },
       rot |-> {}, base |-> Placeholder],
      [out |-> { File(0, << PriorRow >>) }, rot |-> { File(0, << PriorRow >>) }, base |-> Absent],
      [out |-> { File(0, << PriorRow >>) }, rot |-> { File(0, << PriorRow >>) }, base |-> Placeholder],
      [out |-> { File(0, << PriorRow >>) },
       rot |-> { File(0, << PriorRow >>), File(1, << PriorRowY >>) }, base |-> Absent] }

\* scrape_hot_chips has not been entered: every local has its first value
ScrapeIdle(dirs) ==
    /\ \E d \in dirs :
        /\ outputDir = d.out
        /\ dupRot = d.rot
        /\ dupBase = d.base
    /\ skipped = {}
    /\ swallowed = {}
    /\ out0 = {}
    /\ rot0 = {}
    /\ base0 = Absent
    /\ clock = 1
    /\ pc = "idle"
    /\ catalogue = {}
    /\ count_needed = 0
    /\ historical_names = {}
    /\ hist0 = {}
    /\ MAIN_FILE = None
    /\ dup_entries = <<>>
    /\ dup_seen = {}
    /\ saved = 0
    /\ seen_this_run = {}
    /\ empty_retries = 0
    /\ total_cards = 0
    /\ idx = 0
    /\ sc_tries = 0
    /\ old_count = 0
    /\ faults = 0
    /\ printed = <<>>

\* no call of validate_phone is in progress
PhoneIdle == raw_text = <<>> /\ phone = <<>>

\* no candidate is open
FieldIdle ==
    /\ fpc = "idle"
    /\ tel_candidates = <<>>
    /\ share_dialog_text = <<>>
    /\ pane_text = <<>>
    /\ current_url = <<>>
    /\ entry_phone = <<>>
    /\ share_called = FALSE
    /\ share_clicked = FALSE
    /\ share_link = <<>>
    /\ google_maps_loc = <<>>

\* line 715: __main__ is about to call scrape_hot_chips(area, count)
MainReturned ==
    /\ mpc = "scrape"
    /\ area_input = << "H", "S", "R" >>
    /\ attempt = 1
    /\ probed = << << "H", "S", "R" >> >>
    /\ \E ci \in CountTexts :
        /\ isdigit(Strip(ci))
        /\ int(Strip(ci)) <= MaxCount
        /\ count_input = Strip(ci)
        /\ count = int(Strip(ci))

Init == ScrapeIdle(PriorDirs) /\ MainReturned /\ PhoneIdle /\ FieldIdle

\* ------------------------------------------------- scrape_hot_chips 354-390
StartRun ==
    /\ pc = "idle"
    /\ mpc = "scrape"
    /\ \E cn \in { count }, cat \in { {}, CardTexts }, unreadable \in SUBSET outputDir :
        /\ count_needed' = cn
        /\ catalogue' = cat
        /\ historical_names' = load_all_previous_entries(outputDir, unreadable)
        /\ hist0' = load_all_previous_entries(outputDir, unreadable)
        /\ skipped' = unreadable
        /\ pc' = LoopHead(0, cn)
    /\ out0' = outputDir
    /\ rot0' = dupRot
    /\ base0' = dupBase
    /\ clock' = clock + 1
    /\ MAIN_FILE' = clock + 1
    /\ outputDir' = WriteFile(outputDir, clock + 1, <<>>)
    /\ dup_entries' = <<>>
    /\ dup_seen' = {}
    /\ saved' = 0
    /\ seen_this_run' = {}
    /\ empty_retries' = 0
    /\ total_cards' = 0
    /\ idx' = 0
    /\ sc_tries' = 0
    /\ old_count' = 0
    /\ faults' = 0
    /\ printed' = <<>>
    /\ swallowed' = {}
    /\ UNCHANGED << dupBase, dupRot, mainVars, phoneVars, fieldVars >>

\* ------------------------------------------------- lines 392-424: Listing
\* One pass of the loop head: count, and on zero the scroll and reload
\* re-counts of the retry ladder.
ListCards ==
    /\ pc = "listing"
    /\ \E c1 \in CountsOf(catalogue), c2 \in CountsOf(catalogue), c3 \in CountsOf(catalogue) :
        LET er == LadderRetries(empty_retries, c1)
        IN  \* a re-count that is not made has no value to choose
            /\ (c1 # 0 \/ LadderGivesUp(er)) => (c2 = 0 /\ c3 = 0)
            /\ c2 # 0 => c3 = 0
            /\ empty_retries' = er
            /\ IF c1 = 0 /\ LadderGivesUp(er)
               THEN /\ printed' = << "NoCards" >>
                    /\ pc' = "finish"
                    /\ total_cards' = 0
               ELSE /\ printed' = <<>>
                    /\ pc' = "cards"
                    /\ total_cards' = LadderTotal(c1, c2, c3)
    /\ idx' = 0
    /\ UNCHANGED << dirVars, runVars, historical_names, dup_entries, dup_seen,
                    saved, seen_this_run, sc_tries, old_count, faults >>


\* ------------------------------------------- lines 426-625: one candidate
\* the for loop is at index idx and has not met its break
ForLoopRuns == pc = "cards" /\ idx < total_cards /\ ~ForBreak(saved, count_needed)

\* lines 433-441: the name of a card is its stripped text, or "N/A" when both
\* reads raise; raised is the number of exceptions the read cost
ReadNames ==
    { [name |-> n, raised |-> 0] : n \in CardNames(catalogue) }
        \cup { [name |-> NAText, raised |-> 1] }

\* lines 510-551: fields harvested for a candidate, as a row
HarvestedRows(name) ==
    { << Today, name, ph, ad, lo >> : ph \in Phones, ad \in Addrs, lo \in Locs }

DupMessage(entries, dseen, hist, row) ==
    IF RecordDuplicate(entries, dseen, hist, row) # entries THEN << "DupRecorded" >> ELSE <<>>

\* an exception before the name is classified (line 430) reaches line 619
CandidateEarlyError ==
    /\ ForLoopRuns
    /\ faults < MaxFaults
    /\ faults' = faults + 1
    /\ idx' = idx + 1
    /\ printed' = << "Error" >>
    /\ UNCHANGED << dirVars, runVars, pc, historical_names, dup_entries, dup_seen,
                    saved, seen_this_run, empty_retries, total_cards, sc_tries, old_count >>

\* lines 442-444: the name was already accepted in this run
CandidateSkip ==
    /\ ForLoopRuns
    /\ \E rd \in ReadNames :
        /\ faults + rd.raised <= MaxFaults
        /\ SeenInRun(NormName(rd.name), seen_this_run)
        /\ faults' = faults + rd.raised
    /\ idx' = idx + 1
    /\ printed' = <<>>
    /\ UNCHANGED << dirVars, runVars, pc, historical_names, dup_entries, dup_seen,
                    saved, seen_this_run, empty_retries, total_cards, sc_tries, old_count >>

\* lines 446-617: fields resolved, duplicate recorded, row appended and saved
CandidateSave ==
    /\ ForLoopRuns
    /\ \E rd \in ReadNames :
        /\ ~SeenInRun(NormName(rd.name), seen_this_run)
        /\ \E row \in HarvestedRows(rd.name), loadOk \in BOOLEAN :
            /\ faults + rd.raised + (IF loadOk THEN 0 ELSE 1) <= MaxFaults
            /\ faults' = faults + rd.raised + (IF loadOk THEN 0 ELSE 1)
            /\ dup_entries' = RecordDuplicate(dup_entries, dup_seen, historical_names, row)
            /\ dup_seen' = RecordDuplicateSeen(dup_seen, historical_names, row)
            /\ outputDir' = WriteFile(outputDir, MAIN_FILE,
                                      MainRowsAfterAppend(ledger, row, loadOk))
            /\ saved' = saved + 1
            /\ seen_this_run' = AddKey(seen_this_run, NormName(rd.name))
            /\ historical_names' = AddKey(historical_names, NormName(rd.name))
            /\ printed' = DupMessage(dup_entries, dup_seen, historical_names, row)
                          \o << "Saved" >>
    /\ idx' = idx + 1
    /\ UNCHANGED << dupBase, dupRot, clock, runVars, pc, empty_retries, total_cards,
                    sc_tries, old_count >>

\* lines 576-606 raise after the duplicate was recorded (ws.append, wb.save)
CandidateWriteError ==
    /\ ForLoopRuns
    /\ \E rd \in ReadNames :
        /\ faults + rd.raised + 1 <= MaxFaults
        /\ faults' = faults + rd.raised + 1
        /\ ~SeenInRun(NormName(rd.name), seen_this_run)
        /\ \E row \in HarvestedRows(rd.name) :
            /\ dup_entries' = RecordDuplicate(dup_entries, dup_seen, historical_names, row)
            /\ dup_seen' = RecordDuplicateSeen(dup_seen, historical_names, row)
            /\ printed' = DupMessage(dup_entries, dup_seen, historical_names, row)
                          \o << "Error" >>
            /\ outputDir' = WriteFile(outputDir, MAIN_FILE,
                                      MainRowsAfterFailedWrite(ledger, row))
    /\ idx' = idx + 1
    /\ UNCHANGED << dupBase, dupRot, clock, runVars, pc, historical_names, saved,
                    seen_this_run, empty_retries, total_cards, sc_tries, old_count >>

\* lines 426-428 and 627-628: the for loop is over
EndOfListing ==
    /\ pc = "cards"
    /\ ~(idx < total_cards /\ ~ForBreak(saved, count_needed))
    /\ pc' = IF ForBreak(saved, count_needed) THEN "finish" ELSE "paginate"
    /\ printed' = <<>>
    /\ UNCHANGED << dirVars, runVars, historical_names, dup_entries, dup_seen, saved,
                    seen_this_run, empty_retries, total_cards, idx, sc_tries, old_count,
                    faults >>

\* ---------------------------------------------- lines 630-662: pagination
\* locating, testing or clicking the Next button raises (line 660)
NextRaises ==
    /\ pc = "paginate"
    /\ pc' = "finish"
    /\ printed' = << "CouldNotNavigate" >>
    /\ UNCHANGED << dirVars, runVars, historical_names, dup_entries, dup_seen, saved,
                    seen_this_run, empty_retries, total_cards, idx, sc_tries, old_count,
                    faults >>

\* lines 633-636: the Next button is visible and is clicked
NextClick ==
    /\ pc = "paginate"
    /\ pc' = LoopHead(saved, count_needed)
    /\ printed' = <<>>
    /\ UNCHANGED << dirVars, runVars, historical_names, dup_entries, dup_seen, saved,
                    seen_this_run, empty_retries, total_cards, idx, sc_tries, old_count,
                    faults >>

\* lines 638-641: no Next button, start the scroll probes
NoNextButton ==
    /\ pc = "paginate"
    /\ pc' = "scroll"
    /\ sc_tries' = 0
    /\ old_count' = total_cards
    /\ printed' = <<>>
    /\ UNCHANGED << dirVars, runVars, historical_names, dup_entries, dup_seen, saved,
                    seen_this_run, empty_retries, total_cards, idx, faults >>

\* line 652
Grew(new_total, old) == new_total # 0 /\ new_total > old

\* lines 642-657: one scroll probe; a failing count leaves new_total = old_count
ScrollProbe ==
    /\ pc = "scroll"
    /\ sc_tries < sc_max /\ WhileCond(saved, count_needed)
    /\ \E new_total \in CountsOf(catalogue) \cup { old_count } :
        IF Grew(new_total, old_count)
        THEN /\ pc' = LoopHead(saved, count_needed)
             /\ sc_tries' = 0
             /\ old_count' = 0
        ELSE /\ pc' = pc
             /\ sc_tries' = sc_tries + 1
             /\ old_count' = old_count
    /\ printed' = <<>>
    /\ UNCHANGED << dirVars, runVars, historical_names, dup_entries, dup_seen, saved,
                    seen_this_run, empty_retries, total_cards, idx, faults >>

\* lines 658-659: the probes did not load more
ScrollGivesUp ==
    /\ pc = "scroll"
    /\ ~(sc_tries < sc_max /\ WhileCond(saved, count_needed))
    /\ pc' = "finish"
    /\ sc_tries' = 0
    /\ old_count' = 0
    /\ printed' = << "NoMorePages" >>
    /\ UNCHANGED << dirVars, runVars, historical_names, dup_entries, dup_seen, saved,
                    seen_this_run, empty_retries, total_cards, idx, faults >>

\* ------------------------------------- lines 664-700: duplicate ledger
\* rotated files after the run, given which loads and removals succeed
RotatedAfterRun(rot, entries, now, readOk, openOk, rmOk) ==
    IF entries = <<>> THEN rot
    ELSE IF find_latest_timestamped_dup(rot) # None
         THEN append_to_and_update_timestamp(rot, find_latest_timestamped_dup(rot),
                                             entries, now, readOk, openOk, rmOk)
         ELSE save_timestamped_dup(rot, now, entries)

\* the placeholder after the run
PlaceholderAfterRun(base, rot, entries, loadOk, rmOk) ==
    IF entries = <<>>
    THEN PlaceholderAfterNoDuplicates(base, find_latest_timestamped_dup(rot))
    ELSE PlaceholderAfterDuplicates(base, loadOk, rmOk)

\* what lines 92, 134 and 676-700 print
FinishMessages(base, rot, entries, readOk, openOk) ==
    LET latest == find_latest_timestamped_dup(rot)
        existing_set == read_entries_from_dup(FileRows(rot, latest), readOk)
        appended == IF openOk THEN Len(filtered_rows(entries, existing_set))
                    ELSE Len(entries)
    IN  (IF entries = <<>>
         THEN IF ~base.exists /\ latest = None
              THEN << "CreatedEmptyBase" >> ELSE << "NoDuplicates" >>
         ELSE IF latest # None
              THEN (IF readOk THEN <<>> ELSE << "CouldNotReadDup" >>)
                   \o (IF openOk THEN <<>> ELSE << "CouldNotOpenExisting" >>)
                   \o (IF appended > 0 THEN << "Appended" >> ELSE << "NoNewRows" >>)
              ELSE << "DuplicateFileCreated" >>)
        \o << "MainFileCreated" >>

\* the exceptions lines 78, 91, 133, 156 and 685/696 pass over
SwallowedAtFinish(readOk, openOk, rmOk, baseLoadOk, baseRmOk) ==
    { c \in { "read_entries_from_dup", "load_existing", "remove_existing",
              "is_workbook_empty", "remove_base" } :
        \/ c = "read_entries_from_dup" /\ ~readOk
        \/ c = "load_existing" /\ ~openOk
        \/ c = "remove_existing" /\ ~rmOk
        \/ c = "is_workbook_empty" /\ ~baseLoadOk
        \/ c = "remove_base" /\ ~baseRmOk }

Finish ==
    /\ pc = "finish"
    /\ \E readOk \in BOOLEAN, openOk \in BOOLEAN, rmOk \in BOOLEAN,
          baseLoadOk \in BOOLEAN, baseRmOk \in BOOLEAN :
        \* a call that is not made has no outcome to choose
        /\ (dup_entries = <<>> \/ dupRot = {}) => (readOk /\ openOk /\ rmOk)
        /\ ~openOk => rmOk
        /\ (dup_entries = <<>> \/ ~dupBase.exists) => (baseLoadOk /\ baseRmOk)
        /\ ~baseLoadOk => baseRmOk
        /\ ~is_workbook_empty(dupBase.rows, TRUE) => baseRmOk
        /\ dupRot' = RotatedAfterRun(dupRot, dup_entries, clock + 1, readOk, openOk, rmOk)
        /\ dupBase' = PlaceholderAfterRun(dupBase, dupRot, dup_entries, baseLoadOk, baseRmOk)
        /\ printed' = FinishMessages(dupBase, dupRot, dup_entries, readOk, openOk)
        /\ swallowed' = SwallowedAtFinish(readOk, openOk, rmOk, baseLoadOk, baseRmOk)
    /\ clock' = clock + 1
    /\ pc' = "done"
    \* the loop's own locals end with the loop
    /\ empty_retries' = 0
    /\ total_cards' = 0
    /\ idx' = 0
    /\ faults' = 0
    /\ UNCHANGED << outputDir, startVars, historical_names, dup_entries, dup_seen, saved,
                    seen_this_run, sc_tries, old_count >>

Next ==
    \/ StartRun
    \/ ListCards
    \/ CandidateEarlyError
    \/ CandidateSkip
    \/ CandidateSave
    \/ CandidateWriteError
    \/ EndOfListing
    \/ NextRaises
    \/ NextClick
    \/ NoNextButton
    \/ ScrollProbe
    \/ ScrollGivesUp
    \/ Finish

Spec == Init /\ [][Next]_vars

\* The process is single-threaded and every source call is blocking with a
\* timeout, so a step that can be taken is eventually taken.
FairSpec == Init /\ [][Next]_vars /\ WF_vars(Next)

\* now_ts() (28-29) formats the local wall clock to the second, and the
\* program does not compare the name it builds with the names on disk.  When
\* the wall clock was set back between two runs, or a file was copied in, a
\* rotated file can carry the very second at which this run rotates: here
\* duplicated_<3>, the name the run builds at its end.  In the same way a
\* main file of an earlier run can carry the second at which this run starts
\* (line 356): here main_<2>.  datetime.now() is naive local time, so the
\* hour that is repeated when daylight saving ends gives such names as well.
SkewDirs ==
    PriorDirs \cup
    { [out |-> { File(0, << PriorRow >>) }, rot |-> { File(3, << PriorRow >>) },
       base |-> Absent],
      [out |-> { File(0, << PriorRow >>), File(2, << PriorRowB >>) }, rot |-> {},
       base |-> Placeholder] }

SkewInit == ScrapeIdle(SkewDirs) /\ MainReturned /\ PhoneIdle /\ FieldIdle

SkewSpec == SkewInit /\ [][Next]_vars

\* duplicated.xlsx as an edited or older copy can be: header only, a row of
\* blank cells, or a row with data; with and without a rotated file next to it
BlankRow == << "", << " " >>, "", <<>>, "" >>

PlaceholderDirs ==
    { [out |-> { File(0, << PriorRow >>) }, rot |-> r, base |-> [exists |-> TRUE, rows |-> b]] :
        r \in { {}, { File(0, << PriorRow >>) } },
        b \in { <<>>, << BlankRow >>, << BlankRow, PriorRow >> } }

PlaceholderInit == ScrapeIdle(PlaceholderDirs) /\ MainReturned /\ PhoneIdle /\ FieldIdle

PlaceholderSpec == PlaceholderInit /\ [][Next]_vars

\* ------------------------------------------------ the script run repeatedly
\* The script has ended (line 716) and is started again: a new process with
\* fresh locals finds the directories as the last run left them.  A run takes
\* two ticks of the clock.
Restart ==
    /\ pc = "done"
    /\ clock < 1 + 2 * MaxRuns
    /\ pc' = "idle"
    /\ catalogue' = {}
    /\ count_needed' = 0
    /\ historical_names' = {}
    /\ hist0' = {}
    /\ out0' = {}
    /\ rot0' = {}
    /\ base0' = Absent
    /\ MAIN_FILE' = None
    /\ dup_entries' = <<>>
    /\ dup_seen' = {}
    /\ saved' = 0
    /\ seen_this_run' = {}
    /\ empty_retries' = 0
    /\ total_cards' = 0
    /\ idx' = 0
    /\ sc_tries' = 0
    /\ old_count' = 0
    /\ faults' = 0
    /\ printed' = <<>>
    /\ skipped' = {}
    /\ swallowed' = {}
    /\ UNCHANGED << dirVars, mainVars, phoneVars, fieldVars >>

RunsNext == Next \/ Restart

\* the first run ever: both directories are empty (lines 18-19 made them)
RunsInit ==
    /\ ScrapeIdle({ [out |-> {}, rot |-> {}, base |-> Absent] })
    /\ MainReturned /\ PhoneIdle /\ FieldIdle

RunsSpec == RunsInit /\ [][RunsNext]_vars

\* ------------------------------------------- __main__ (705-716), 234-255
\* line 236: the while test of get_valid_area_from_user; line 254 when it fails
AreaLoopHead(a) == IF a < max_attempts THEN "prompt" ELSE "exit1"

\* line 706: the first statement of the script
MainStart ==
    /\ mpc = AreaLoopHead(0)
    /\ area_input = <<>>
    /\ attempt = 0
    /\ probed = <<>>
    /\ count_input = <<>>
    /\ count = 0

\* lines 237-238
ReadArea ==
    /\ mpc = "prompt"
    /\ \E text \in AreaTexts : area_input' = Strip(text)
    /\ attempt' = attempt + 1
    /\ mpc' = "read"
    /\ UNCHANGED << probed, count_input, count, scrapeVars, phoneVars, fieldVars >>

\* lines 239-244
RejectArea ==
    /\ mpc = "read"
    /\ is_obviously_invalid_area(area_input)
    /\ mpc' = IF attempt >= max_attempts THEN "exit1" ELSE AreaLoopHead(attempt)
    /\ UNCHANGED << area_input, attempt, probed, count_input, count, scrapeVars, phoneVars, fieldVars >>

\* lines 245-253: the probe answers found or not found (an error inside
\* check_area_on_maps is the answer False, line 231)
ProbeArea ==
    /\ mpc = "read"
    /\ ~is_obviously_invalid_area(area_input)
    /\ probed' = Append(probed, area_input)
    /\ \E found \in BOOLEAN :
        mpc' = IF found THEN "count"
               ELSE IF attempt < max_attempts THEN AreaLoopHead(attempt) ELSE "exit1"
    /\ UNCHANGED << area_input, attempt, count_input, count, scrapeVars, phoneVars, fieldVars >>

\* lines 708-713
ReadCount ==
    /\ mpc = "count"
    /\ \E text \in CountTexts :
        /\ count_input' = Strip(text)
        /\ IF isdigit(Strip(text))
           THEN count' = int(Strip(text)) /\ mpc' = "scrape"
           ELSE count' = count /\ mpc' = "count"
    /\ UNCHANGED << area_input, attempt, probed, scrapeVars, phoneVars, fieldVars >>

MainNext ==
    \/ ReadArea
    \/ RejectArea
    \/ ProbeArea
    \/ ReadCount

\* the script from its first line to the call of scrape_hot_chips
MainInit ==
    ScrapeIdle({ [out |-> {}, rot |-> {}, base |-> Absent] }) /\ MainStart /\ PhoneIdle /\ FieldIdle

MainSpec == MainInit /\ [][MainNext]_vars

\* ------------------------------------------------ one call of validate_phone
ValidatePhone ==
    /\ phone = <<>>
    /\ phone' = validate_phone(raw_text)
    /\ UNCHANGED << raw_text, scrapeVars, mainVars, fieldVars >>

PhoneNext == ValidatePhone

\* validate_phone is called with any of the raw texts
PhoneInit ==
    /\ ScrapeIdle({ [out |-> {}, rot |-> {}, base |-> Absent] })
    /\ MainReturned /\ count = 0
    /\ raw_text \in PhoneTexts /\ phone = <<>>
    /\ FieldIdle

PhoneSpec == PhoneInit /\ [][PhoneNext]_vars

\* ------------------------------------- the fields of one candidate (510-551)
\* lines 510-514: what the page handed back for the opened candidate
Harvest ==
    /\ fpc = "idle"
    /\ \E n \in 0..MaxTel : \E tels \in [1..n -> TelTexts] : tel_candidates' = tels
    /\ \E t \in PaneTexts : share_dialog_text' = Strip(t)
    /\ \E t \in PaneTexts : pane_text' = Strip(t)
    /\ \E u \in PageUrls : current_url' = Strip(u)
    /\ fpc' = "phone"
    /\ UNCHANGED << entry_phone, share_called, share_clicked, share_link, google_maps_loc,
                    scrapeVars, mainVars, phoneVars >>

\* lines 516-526
ResolvePhone ==
    /\ fpc = "phone"
    /\ entry_phone' = NormalizePhone(tel_candidates, share_dialog_text, pane_text)
    /\ fpc' = "location"
    /\ UNCHANGED << tel_candidates, share_dialog_text, pane_text, current_url, share_called,
                    share_clicked, share_link, google_maps_loc, scrapeVars, mainVars, phoneVars >>

\* lines 528-551; an exception inside extract_share_link_from_dialog is its
\* answer "NA" (346-348)
ResolveLocation ==
    /\ fpc = "location"
    /\ \E clicked \in BOOLEAN, dlg_text \in DialogTexts, val \in InputValues :
        LET called == ShareTried(current_url)
            link == IF called THEN extract_share_link_from_dialog(clicked, dlg_text, val)
                    ELSE <<>>
        IN  /\ share_called' = called
            /\ share_clicked' = (called /\ clicked)
            /\ share_link' = link
            /\ google_maps_loc' = google_maps_loc_of(exact_place_url(current_url, link), current_url)
    /\ fpc' = "resolved"
    /\ UNCHANGED << tel_candidates, share_dialog_text, pane_text, current_url, entry_phone,
                    scrapeVars, mainVars, phoneVars >>

FieldNext ==
    \/ Harvest
    \/ ResolvePhone
    \/ ResolveLocation

FieldInit ==
    /\ ScrapeIdle({ [out |-> {}, rot |-> {}, base |-> Absent] })
    /\ MainReturned /\ count = 0
    /\ PhoneIdle /\ FieldIdle

FieldSpec == FieldInit /\ [][FieldNext]_vars


\* ================================================================ claims
Last(q) == q[Len(q)]

LedgerKeys == { NormName(ledger[i][2]) : i \in 1..Len(ledger) }

DupEntryRows == { DupRow(dup_entries[i]) : i \in 1..Len(dup_entries) }

\* the last step processed a candidate (no other step leaves idx > 0 at "cards")
CandidateDone == pc = "cards" /\ idx > 0

C2_OneRowPerKey ==
    /\ LedgerKeys \subseteq seen_this_run
    /\ \A i \in 1..Len(ledger) : \A j \in 1..Len(ledger) :
          i # j => NormName(ledger[i][2]) # NormName(ledger[j][2])
    /\ Len(ledger) <= Cardinality(seen_this_run)

\* C2 witness: a sighting of an already accepted key was skipped (nothing
\* printed, index advanced) while the RunLedger holds rows.
C2_Witness ==
    /\ CandidateDone /\ printed = <<>>
    /\ Len(ledger) >= 1
    /\ LedgerKeys = seen_this_run


\* what a candidate step can print
FateSaved == "Saved" \in SeqRange(printed)
FateDuplicate == "DupRecorded" \in SeqRange(printed)
FateError == "Error" \in SeqRange(printed)

InLoop == pc \in { "listing", "cards", "paginate", "scroll", "finish" }

\* C4: saved never exceeds count_needed, the RunLedger never holds more rows
\* than saved, and once saved = count_needed no step lists, opens or appends:
\* the only step left is the one that leaves the loop for the duplicate ledger.
C4_StopsAtCount ==
    /\ [](saved <= count_needed /\ Len(ledger) <= saved)
    /\ [][ (InLoop /\ saved = count_needed) =>
             /\ saved' = saved
             /\ outputDir' = outputDir
             /\ idx' = idx \/ pc' = "done"
             /\ dup_entries' = dup_entries
             /\ pc' \in { "finish", "done" } ]_vars
    /\ [](count_needed = 0 => ledger = <<>> /\ pc \notin { "listing", "cards", "paginate", "scroll" })

\* C4 witness: the loop was left with saved = count_needed > 0 while the
\* listing still had an unvisited card.
C4_Witness ==
    /\ pc = "finish" /\ count_needed > 0 /\ saved = count_needed
    /\ Len(ledger) = saved
    /\ idx < total_cards


\* --------------------------------------------------- duplicate-ledger claims
KeysOf(rows) == { DupKey(rows[i]) : i \in 1..Len(rows) }

DirKeys(rot) == UNION { KeysOf(f.rows) : f \in rot }

\* the run recorded a duplicate and a rotated file existed: the merge branch
\* of lines 680-681 was taken
MergeRun == pc = "done" /\ dup_entries # <<>> /\ rot0 # {}

\* rows of the rotated file the run wrote, and of the one it started from
NewRotatedRows == FileRows(dupRot, clock)

PreviousRotatedRows == FileRows(rot0, find_latest_timestamped_dup(rot0))

OpenedPrevious == "CouldNotOpenExisting" \notin SeqRange(printed)

Occurrences(rows, r) == Cardinality({ i \in 1..Len(rows) : rows[i] = r })

\* C6 as stated: after a merge each identity key appears at most once in the
\* merged file, every row of the previous file appears exactly once, and the
\* rows added have keys that were not present.
C6_MergeNeverDuplicatesAKey ==
    (MergeRun /\ OpenedPrevious) =>
        /\ \A i \in 1..Len(NewRotatedRows) : \A j \in 1..Len(NewRotatedRows) :
              i # j => DupKey(NewRotatedRows[i]) # DupKey(NewRotatedRows[j])
        /\ \A i \in 1..Len(PreviousRotatedRows) :
              Occurrences(NewRotatedRows, PreviousRotatedRows[i]) = 1
        /\ \A i \in (Len(PreviousRotatedRows) + 1)..Len(NewRotatedRows) :
              DupKey(NewRotatedRows[i]) \notin KeysOf(PreviousRotatedRows)

\* C7: a run that recorded no duplicate leaves every rotated file as it was,
\* leaves the placeholder as it was when a rotated file or a placeholder
\* existed, and otherwise creates the header-only placeholder; a run with an
\* empty history records no duplicate.
C7_NoDuplicatesFrame ==
    /\ (pc = "done" /\ dup_entries = <<>>) =>
          /\ dupRot = rot0
          /\ IF base0.exists \/ rot0 # {}
             THEN dupBase = base0
             ELSE dupBase = Placeholder
    /\ hist0 = {} => dup_entries = <<>>

\* C7 witness: empty history, count_needed distinct candidates saved, no
\* duplicate file before the run, the placeholder and nothing else after it.
C7_Witness ==
    /\ pc = "done" /\ hist0 = {} /\ dup_entries = <<>>
    /\ count_needed = MaxCount /\ Len(ledger) = MaxCount
    /\ ~base0.exists /\ rot0 = {}
    /\ dupBase = Placeholder /\ dupRot = {}

\* C8: when the source has nothing to list, the run reaches its end with no
\* row saved, and a placeholder exists afterwards if no duplicate file
\* existed before.
C8_EmptySourceTerminates ==
    (pc # "idle" /\ catalogue = {}) ~>
        /\ pc = "done" /\ catalogue = {}
        /\ saved = 0 /\ ledger = <<>>
        /\ (~base0.exists /\ rot0 = {}) => (dupBase = Placeholder /\ dupRot = {})
        /\ (base0.exists \/ rot0 # {}) => (dupBase = base0 /\ dupRot = rot0)

\* C8 witness: the ladder ran out on an empty source and the run is over with
\* the placeholder created.
C8_Witness ==
    /\ pc = "done" /\ catalogue = {} /\ count_needed > 0
    /\ saved = 0 /\ ledger = <<>>
    /\ "CreatedEmptyBase" \in SeqRange(printed)
    /\ ~base0.exists /\ dupBase = Placeholder

\* C9 as stated: the loop is left only with saved = count_needed or with the
\* source exhausted (the ladder gave up, or no pagination path grew).
C9_LoopExitsOnlyWhenDoneOrExhausted ==
    pc = "finish" =>
        \/ saved = count_needed
        \/ "NoCards" \in SeqRange(printed)
        \/ "NoMorePages" \in SeqRange(printed)

DigitCount(s) == Cardinality({ i \in 1..Len(s) : s[i] \in Digits })

\* C11: on a string of digits validate_phone answers "NA" at length 9 and 14
\* and the string itself at length 10 and 13; on any text it answers a digit
\* string exactly when the text holds 10 to 13 digits, and that string is the
\* text's digits in order.
C11_PhoneLengthWindow ==
    phone # <<>> =>
        /\ (isdigit(raw_text) /\ Len(raw_text) \in { 9, 14 }) => phone = NAPhone
        /\ (isdigit(raw_text) /\ Len(raw_text) \in { 10, 13 }) => phone = raw_text
        /\ (phone # NAPhone) <=> (10 <= DigitCount(raw_text) /\ DigitCount(raw_text) <= 13)
        /\ phone # NAPhone =>
              /\ isdigit(phone)
              /\ Len(phone) = DigitCount(raw_text)
              /\ phone = SelectSeq(raw_text, LAMBDA c : c # "-")

\* C11 witness: a 13-digit string came back unchanged.
C11_Witness ==
    /\ isdigit(raw_text) /\ Len(raw_text) = 13
    /\ "1" \in SeqRange(raw_text) /\ "9" \in SeqRange(raw_text)
    /\ phone = raw_text

\* ------------------------------------------------------- area validation
\* number of alphabetic characters of a text
AlphaCount(s) == Cardinality({ i \in 1..Len(s) : s[i] \in Letters })

\* empty or blank, digits only, or fewer than two alphabetic characters
RejectedShape(s) ==
    \/ s = <<>> \/ \A i \in 1..Len(s) : s[i] = " "
    \/ \A i \in 1..Len(s) : s[i] \in Digits
    \/ AlphaCount(s) < 2

\* C12: check_area_on_maps is never called with an input that is empty, blank,
\* digits only or has fewer than two letters; such an input leads back to the
\* prompt or to exit status 1 without a probe; the count prompt and
\* scrape_hot_chips are reached only with the last probed input, which has
\* none of these shapes, within max_attempts prompts; and the process exits
\* with status 1 only when the prompts are used up, before the count prompt.
C12_AreaRejectedBeforeProbe ==
    /\ [](\A i \in 1..Len(probed) : ~RejectedShape(probed[i]))
    /\ [](mpc \in { "count", "scrape" } =>
            /\ Len(probed) >= 1 /\ Last(probed) = area_input
            /\ ~RejectedShape(area_input)
            /\ 1 <= attempt /\ attempt <= max_attempts)
    /\ [](Len(probed) <= attempt /\ attempt <= max_attempts)
    /\ [](mpc = "prompt" => attempt < max_attempts)
    /\ [](mpc = "exit1" => attempt = max_attempts /\ count_input = <<>> /\ pc = "idle")
    /\ [][ (mpc = "read" /\ RejectedShape(area_input)) =>
             (probed' = probed /\ mpc' \in { "prompt", "exit1" }) ]_vars
    /\ [][ mpc' = "scrape" => (mpc = "count" /\ count' = int(count_input')) ]_vars

\* C12 witness: the first input was rejected without a probe, the second was
\* probed and found, and the script is at the call of scrape_hot_chips.
C12_Witness ==
    /\ mpc = "scrape"
    /\ attempt = max_attempts
    /\ Len(probed) = 1
    /\ area_input = << "x", "y" >>

\* ------------------------------------------------------ historical index
\* the main files of earlier runs
EarlierFiles == { f \in outputDir : f.ts # MAIN_FILE }

\* trimmed lowercase names of the data rows of a file, blank names left out
NamesIn(f) ==
    { LowerStr(Strip(f.rows[i][2])) : i \in 1..Len(f.rows) } \ { <<>> }

\* C13: the run starts whatever files cannot be read; the files warned about
\* are earlier main files; the key set returned holds the name key of every
\* data row of every file that was read, and nothing else; loading the same
\* files again returns the same set; and the in-memory set never loses one
\* of these keys.
C13_HistorySkipsUnreadable ==
    pc # "idle" =>
        /\ skipped \subseteq EarlierFiles
        /\ \A f \in EarlierFiles \ skipped : NamesIn(f) \subseteq hist0
        /\ hist0 = UNION { NamesIn(f) : f \in EarlierFiles \ skipped }
        /\ load_all_previous_entries(EarlierFiles, skipped) = hist0
        /\ ledger = <<>> => load_all_previous_entries(outputDir, skipped) = hist0
        /\ hist0 \subseteq historical_names

\* C13 witness: of two earlier main files one was skipped and the other read;
\* the run went on and saved a row.
C13_Witness ==
    /\ pc = "done" /\ saved >= 1
    /\ Cardinality(EarlierFiles) = 2 /\ Cardinality(skipped) = 1
    /\ hist0 = { <<"b">> }

\* ------------------------------------------------------------- rotation
\* the rows a merge into the previous rotated file has to produce
MergedRows ==
    PreviousRotatedRows \o filtered_rows(dup_entries, KeysOf(PreviousRotatedRows))

\* C14 as stated: after a run with a duplicate and an existing rotated file
\* the previous rotated file is gone, a rotated file named with the new
\* timestamp exists and holds the merged rows, and nothing else changed in
\* the directory.
C14_RotationReplacesPrevious ==
    MergeRun =>
        /\ \A f \in dupRot \ rot0 : f.ts = clock
        /\ \E f \in dupRot : f.ts = clock /\ f.rows = MergedRows
        /\ File(find_latest_timestamped_dup(rot0), PreviousRotatedRows) \notin dupRot
        /\ Cardinality(dupRot) = Cardinality(rot0)

\* ------------------------------------------------------- ending the loop
\* C15 as stated: a run whose source never lists a card leaves the loop only
\* once empty_retries has passed empty_retries_max, with the "no cards"
\* message, and the ladder is never tried more often than that.
C15_GivesUpOnlyAfterLadder ==
    /\ empty_retries <= empty_retries_max + 1
    /\ "NoCards" \in SeqRange(printed) => empty_retries > empty_retries_max
    /\ (pc = "finish" /\ catalogue = {} /\ count_needed > 0) =>
          /\ empty_retries > empty_retries_max
          /\ "NoCards" \in SeqRange(printed)

\* a scroll probe that found more cards (lines 652-657)
ScrollGrows == pc = "scroll" /\ pc' = "listing"

\* C16 as stated: once the scroll probes stop increasing the count, a run that
\* is listing reaches its end, whatever else the source does (a Next button
\* that stays visible included).
C16_LoopAlwaysTerminates ==
    <>[][~ScrollGrows]_vars => ((pc = "listing") ~> (pc = "done"))

\* ----------------------------------------------------------- placeholder
\* a run that recorded a duplicate is over
DuplicatesRun == pc = "done" /\ dup_entries # <<>>

\* every cell of every data row is empty or white space
HoldsNoData(rows) ==
    \A i \in 1..Len(rows) :
        /\ rows[i][1] = "" /\ rows[i][3] = "" /\ rows[i][5] = ""
        /\ \A j \in 1..Len(rows[i][2]) : rows[i][2][j] = " "
        /\ \A j \in 1..Len(rows[i][4]) : rows[i][4][j] = " "

PlaceholderCallsRaised == swallowed \cap { "is_workbook_empty", "remove_base" } # {}

RowsAdded == SubSeq(NewRotatedRows, Len(PreviousRotatedRows) + 1, Len(NewRotatedRows))

\* C18 as stated: the key the HistoricalIndex builds from a RunLedger row is
\* the key the classifier tested the candidate with, and the merge filter
\* uses the same key: a duplicate row that the classifier's key identifies
\* with a row of the previous rotated file is not added by the merge.
C18_OneKeyShape ==
    /\ \A i \in 1..Len(ledger) :
          MainFileKeys(<< ledger[i] >>) = { NormName(ledger[i][2]) }
    /\ (MergeRun /\ OpenedPrevious /\ "read_entries_from_dup" \notin swallowed) =>
          \A i \in 1..Len(RowsAdded) : \A j \in 1..Len(PreviousRotatedRows) :
              NormName(RowsAdded[i][2]) # NormName(PreviousRotatedRows[j][2])

C20_LedgerHoldsEverySavedRow ==
    pc # "idle" =>
        /\ Len(ledger) = saved
        /\ LedgerKeys = seen_this_run

\* ---------------------------------------------------------------- C21
\* the digit runs of the sources in priority order: telephone candidates
\* first, then the dialog text, then the pane text
RECURSIVE RunsOfAll(_)
RunsOfAll(texts) ==
    IF texts = <<>> THEN <<>> ELSE DigitRuns(Head(texts)) \o RunsOfAll(Tail(texts))

SourceRuns == RunsOfAll(tel_candidates \o << share_dialog_text, pane_text >>)

QualifyingRuns == SelectSeq(SourceRuns, LAMBDA r : 10 <= Len(r) /\ Len(r) <= 13)

PhoneResolved == fpc \in { "location", "resolved" }

\* C21: the phone of an entry is the first single digit run, in the priority
\* order of the sources, whose length is in 10..13, and the sentinel exactly
\* when no single run of any source has such a length; separate short runs
\* are never joined into an accepted number.
C21_FirstQualifyingRun ==
    PhoneResolved =>
        /\ (entry_phone = NAPhone) <=> (QualifyingRuns = <<>>)
        /\ QualifyingRuns # <<>> => entry_phone = QualifyingRuns[1]

\* ---------------------------------------------------------------- C22
\* the reference carries a place marker ("/place/"), a coordinate marker
\* ("@", or "!3d" before a number) or a coordinate pair
CarriesMarker(url) ==
    \/ Contains(url, << "/", "p", "l", "a", "c", "e", "/" >>)
    \/ \E i \in 1..Len(url) : url[i] = "@"
    \/ \E i \in 1..Len(url) :
        /\ OccursAt(url, << "!", "3", "d" >>, i)
        /\ \E j \in { i + 3, i + 4 } :
            /\ j <= Len(url) /\ url[j] \in Digits
            /\ j = i + 4 => url[i + 3] = "-"

\* the share panel gave a URL
GotShareLink == share_link # <<>> /\ share_link # NAPhone

\* C22: the location reference is the current page reference when that
\* carries a marker, and the share affordance is then not triggered;
\* otherwise the share link when one was obtained; otherwise the current
\* reference; and "NA" only when there is neither a share link nor a
\* non-empty current reference.
C22_LocationFallbackOrder ==
    fpc = "resolved" =>
        /\ CarriesMarker(current_url) =>
              google_maps_loc = current_url /\ ~share_called /\ ~share_clicked
        /\ (~CarriesMarker(current_url) /\ GotShareLink) => google_maps_loc = share_link
        /\ (~CarriesMarker(current_url) /\ ~GotShareLink /\ current_url # <<>>) =>
              google_maps_loc = current_url
        /\ (google_maps_loc = NAPhone) <=> (~GotShareLink /\ current_url = <<>>)

\* a candidate whose page reference has no marker took the link of the share
\* dialog
C22_Witness ==
    /\ fpc = "resolved"
    /\ current_url # <<>>
    /\ ~CarriesMarker(current_url)
    /\ share_clicked
    /\ google_maps_loc = ShareUrl

\* ---------------------------------------------------------------- C23
\* C23: a run never modifies, overwrites or deletes the main file of an
\* earlier run: every main file that was there when the run started is still
\* there with the rows it had, and is not the file this run writes, whatever
\* timestamps the two runs have.
C23_EarlierLedgersUntouched ==
    pc # "idle" => \A f \in out0 : f \in outputDir /\ f.ts # MAIN_FILE

\* ---------------------------------------------------------------- C24
\* at least one run has completed since the directories were empty
CompletedRun == pc = "done" \/ out0 # {} \/ (pc = "idle" /\ outputDir # {})

EmptyPlaceholder(base) == base.exists /\ HoldsNoData(base.rows)

\* an empty placeholder next to a rotated file
Coexist(base, rot) == EmptyPlaceholder(base) /\ rot # {}

TrackingFileExists == dupBase.exists \/ dupRot # {}

====
